---- MODULE Spec2Model ----
(***************************************************************************)
(* A model of the max170xx fuel-gauge driver: the driver handle, the bus   *)
(* transactions each operation issues, the early return on the first       *)
(* transport failure, the set_table unlock / burst / lock sequence and the *)
(* per-variant conversions of raw 16-bit registers to f32 quantities.      *)
(*                                                                         *)
(* f32 values are modelled bit-accurately as  (-1)^neg * m * 2^e  with m   *)
(* odd (or m = 0), m < 2^24; every f32 operation rounds to nearest, ties   *)
(* to even, as IEEE-754 single precision does.  All the values that occur  *)
(* are far from the exponent limits, so no overflow or subnormal arises.   *)
(***************************************************************************)
EXTENDS Integers, Sequences, FiniteSets, TLC

\* ------------------------------------------------------------------ bounds

\* How many operations are called on one driver handle in a behaviour.
MaxCalls == 3
\* Tables offered to set_table: TableOf(a, b) for a \in 0..MaxTableA, b \in 0..MaxTableB.
MaxTableA == 1
MaxTableB == 1

\* ------------------------------------------------------- integer helpers

RECURSIVE Pow2(_)
Pow2(n) == IF n = 0 THEN 1 ELSE 2 * Pow2(n - 1)

\* The number of values of a u8 and of a u16; one 12-bit limb.
U8 == Pow2(8)
U16 == Pow2(16)
Pow2_12 == Pow2(12)

\* The number of bits of n: 0 for 0, k when 2^(k-1) <= n < 2^k.
RECURSIVE BitLen(_)
BitLen(n) == IF n = 0 THEN 0 ELSE 1 + BitLen(n \div 2)

\* ------------------------------------------------------------- f32 values

\* The canonical form of (-1)^neg * m * 2^e: trailing zero bits of m moved
\* into the exponent.
RECURSIVE F32Norm(_, _, _)
F32Norm(neg, m, e) ==
  IF m = 0 THEN [kind |-> "f32", neg |-> neg, m |-> 0, e |-> 0]
  ELSE IF m % 2 = 0 THEN F32Norm(neg, m \div 2, e + 1)
  ELSE [kind |-> "f32", neg |-> neg, m |-> m, e |-> e]

\* kept * 2^drop + dropped, rounded to a multiple of 2^drop: to nearest, a tie
\* to the even kept.  The result is the rounded kept (it may reach 2^24,
\* which F32Norm turns into 1 * 2^24).
RoundKept(kept, dropped, drop) ==
  LET half == Pow2(drop - 1)
  IN  IF dropped > half \/ (dropped = half /\ kept % 2 = 1) THEN kept + 1 ELSE kept

\* f32::from(u16) and f32::from(i16): exact, every 16-bit integer is an f32.
F32FromInt(n) == IF n < 0 THEN F32Norm(TRUE, -n, 0) ELSE F32Norm(FALSE, n, 0)

\* An f32 literal whose value is an integer (800.0, 256.0, 5.0 ...).
F32Lit(n) == F32FromInt(n)
\* The f32 literal 0.208: the f32 nearest to 0.208 is 3489661 * 2^-24.
F32_0_208 == [kind |-> "f32", neg |-> FALSE, m |-> 3489661, e |-> -24]

\* a * b in f32.  The 48-bit product of the two mantissas is formed in 12-bit
\* limbs (every intermediate below 2^31) and rounded to 24 bits.
F32Mul(a, b) ==
  LET neg == (a.neg /= b.neg)
      ah == a.m \div Pow2_12
      al == a.m % Pow2_12
      bh == b.m \div Pow2_12
      bl == b.m % Pow2_12
      p0 == al * bl
      t1 == ah * bl + al * bh + (p0 \div Pow2_12)
      top == ah * bh + (t1 \div Pow2_12)
      low == (t1 % Pow2_12) * Pow2_12 + (p0 % Pow2_12)
      nb == BitLen(top)
      e == a.e + b.e
  IN  IF a.m = 0 \/ b.m = 0 THEN [kind |-> "f32", neg |-> neg, m |-> 0, e |-> 0]
      ELSE IF top = 0 THEN F32Norm(neg, low, e)
      ELSE F32Norm(neg,
                   RoundKept(top * Pow2(24 - nb) + (low \div Pow2(nb)),
                             low % Pow2(nb), nb),
                   e + nb)

\* The long division n / d, n and d scaled so that d <= n < 2d: q holds the
\* quotient bits produced so far, rem the remainder (rem < d), left the
\* number of bits still to produce.  Returns <<q, rem>>.
RECURSIVE DivBits(_, _, _, _)
DivBits(q, rem, d, left) ==
  IF left = 0 THEN <<q, rem>>
  ELSE IF 2 * rem >= d THEN DivBits(2 * q + 1, 2 * rem - d, d, left - 1)
  ELSE DivBits(2 * q, 2 * rem, d, left - 1)

\* a / b in f32, b /= 0: the quotient of the mantissas to 24 bits and a guard
\* bit, the remainder as the sticky bit, rounded to nearest even.
F32Div(a, b) ==
  LET neg == (a.neg /= b.neg)
      la == BitLen(a.m)
      lb == BitLen(b.m)
      \* align the two mantissas to the same bit length
      n0 == IF la < lb THEN a.m * Pow2(lb - la) ELSE a.m
      d0 == IF lb < la THEN b.m * Pow2(la - lb) ELSE b.m
      e0 == a.e - b.e + (IF la < lb THEN la - lb ELSE 0) - (IF lb < la THEN lb - la ELSE 0)
      \* now n0 / d0 is in (1/2, 2): make it [1, 2)
      n == IF n0 < d0 THEN 2 * n0 ELSE n0
      e1 == IF n0 < d0 THEN e0 - 1 ELSE e0
      qr == DivBits(1, n - d0, d0, 24)
      q25 == qr[1]
      sticky == IF qr[2] = 0 THEN 0 ELSE 1
      kept == q25 \div 2
      \* guard bit and sticky bit as a 2-bit dropped part: half is 2
      m == RoundKept(kept, 2 * (q25 % 2) + sticky, 2)
  IN  IF a.m = 0 THEN [kind |-> "f32", neg |-> neg, m |-> 0, e |-> 0]
      ELSE F32Norm(neg, m, e1 - 23)

\* a + b in f32 for two non-negative values whose mantissas, aligned to the
\* smaller exponent, stay below 2^30 (here: multiples of 2^-8 below 2^16).
F32Add(a, b) ==
  LET emin == IF a.m = 0 THEN b.e ELSE IF b.m = 0 THEN a.e
              ELSE IF a.e < b.e THEN a.e ELSE b.e
      sa == IF a.m = 0 THEN 0 ELSE a.m * Pow2(a.e - emin)
      sb == IF b.m = 0 THEN 0 ELSE b.m * Pow2(b.e - emin)
      s == sa + sb
      nb == BitLen(s)
  IN  IF nb <= 24 THEN F32Norm(FALSE, s, emin)
      ELSE F32Norm(FALSE,
                   RoundKept(s \div Pow2(nb - 24), s % Pow2(nb - 24), nb - 24),
                   emin + nb - 24)

\* ------------------------------------------------ register access protocol

\* The six device variants and the two sub-families.
Chips == {"Max17043", "Max17044", "Max17048", "Max17049", "Max17058", "Max17059"}
Chips_43_44 == {"Max17043", "Max17044"}
Chips_x8_x9 == {"Max17048", "Max17049", "Max17058", "Max17059"}
Chips_x8 == {"Max17048", "Max17058"}
Chips_x9 == {"Max17049", "Max17059"}
Chips_48_49 == {"Max17048", "Max17049"}

\* The fixed 7-bit device address and the register / command catalog (the
\* datasheet's values).
ADDR == 54
Register_VCELL == 2
Register_SOC == 4
Register_MODE == 6
Register_VERSION == 8
Register_CRATE == 22
Register_COMMAND == 254
Command_QSTRT == 16384
Command_POR_43_44 == 84
Command_POR_X8_X9 == 21504

\* What the transport can report.
TransportErrors == {"NoAcknowledge", "ArbitrationLoss"}

\* A bus transaction as issued: a write of `bytes`, or a write of `bytes`
\* followed by a read of `rlen` bytes, both to device address `addr`.
\* status, err and rdata are filled in when the transport completes it.
I2cWrite(bytes) ==
  [kind |-> "write", addr |-> ADDR, bytes |-> bytes, rlen |-> 0,
   status |-> "pending", err |-> "none", rdata |-> << >>]
I2cWriteRead(bytes, n) ==
  [kind |-> "write_read", addr |-> ADDR, bytes |-> bytes, rlen |-> n,
   status |-> "pending", err |-> "none", rdata |-> << >>]

\* read_register: one exchange (a write-then-read), the address byte out and
\* 2 bytes back; it fails as a whole when either phase fails.
read_register(reg) == I2cWriteRead(<<reg>>, 2)
\* ... combined big-endian: data[0] << 8 | data[1].
read_register_value(data) == (data[1] * U8 + data[2]) % U16
\* write_register: address byte, high byte, low byte.
write_register(reg, value) == I2cWrite(<<reg, (value \div U8) % U8, value % U8>>)
\* write_u8_register: address byte, one payload byte.
write_u8_register(reg, value) == I2cWrite(<<reg, value % U8>>)

\* ------------------------------------------------------------ conversions

\* Faulty variant of AsI16: the cast left out, the raw value taken as unsigned.
AsI16_Unsigned(x) == x

\* `x as i16` of a u16: the same 16 bits read as two's complement.
AsI16(x) == ((x + 32768) % U16) - 32768

\* Faulty variant of soc_4x: the percentage clamped to 100.
soc_4x_Clamped(raw) ==
  IF raw > 25600 THEN F32FromInt(100)
  ELSE F32Add(F32FromInt((raw \div U8) % U8), F32Div(F32FromInt(raw % U8), F32Lit(256)))

\* Max17043 / Max17044 soc: f32::from((soc & 0xFF00) >> 8) + f32::from(soc & 0xFF) / 256.0
soc_4x(raw) ==
  F32Add(F32FromInt((raw \div U8) % U8), F32Div(F32FromInt(raw % U8), F32Lit(256)))

\* Faulty variant of soc_x8_x9: only the integer part, f32::from(soc >> 8).
soc_x8_x9_IntegerPart(raw) == F32FromInt(raw \div U8)

\* Max170x8 / Max170x9 soc: f32::from(soc) / 256.0
soc_x8_x9(raw) == F32Div(F32FromInt(raw), F32Lit(256))

\* Faulty variant of voltage_43: the 4 padding bits not shifted out.
voltage_43_NoShift(raw) == F32Div(F32FromInt(raw), F32Lit(800))

\* Max17043 voltage: f32::from(vcell >> 4) / 800.0
voltage_43(raw) == F32Div(F32FromInt(raw \div 16), F32Lit(800))

\* Max17044 voltage: f32::from(vcell >> 4) / 400.0
voltage_44(raw) == F32Div(F32FromInt(raw \div 16), F32Lit(400))

\* The divisor of the Max170x8 / Max170x9 voltage scale 5.0 / divisor.
VcellDivisor(c) == IF c \in Chips_x8 THEN 64000 ELSE 32000

\* Max170x8: f32::from(vcell) * 5.0 / 64000.0; Max170x9: ... / 32000.0
voltage_x8_x9(c, raw) ==
  F32Div(F32Mul(F32FromInt(raw), F32Lit(5)), F32Lit(VcellDivisor(c)))

\* charge_rate: f32::from(raw as i16) * 0.208
charge_rate_value(raw) == F32Mul(F32FromInt(AsI16(raw)), F32_0_208)

\* -------------------------------------------------------------- set_table

TableLen == 64
BurstLen == 129

\* Faulty variant of FillTable: each entry little-endian, low byte first.
RECURSIVE FillTable_LowFirst(_, _, _)
FillTable_LowFirst(data, table, i) ==
  IF i >= Len(table) THEN data
  ELSE FillTable_LowFirst([data EXCEPT ![i * 2 + 1 + 1] = table[i + 1] % U8,
                                       ![i * 2 + 2 + 1] = (table[i + 1] \div U8) % U8],
                          table, i + 1)

\* The loop of set_table over table.iter().enumerate(), from index i (0-based)
\* on: data[i*2+1] = high byte, data[i*2+2] = low byte (data is 1-based here).
RECURSIVE FillTable(_, _, _)
FillTable(data, table, i) ==
  IF i >= Len(table) THEN data
  ELSE FillTable([data EXCEPT ![i * 2 + 1 + 1] = (table[i + 1] \div U8) % U8,
                              ![i * 2 + 2 + 1] = table[i + 1] % U8],
                 table, i + 1)

\* let mut data = [0; 129]; data[0] = 0x40; then the loop.
set_table_data(table) ==
  FillTable([[j \in 1..BurstLen |-> 0] EXCEPT ![1] = 64], table, 0)

\* Faulty variant of set_table_step: the two lock writes in the other order.
set_table_step_LockSwapped(k, table) ==
  CASE k = 1 -> write_u8_register(63, 87)
    [] k = 2 -> write_u8_register(62, 74)
    [] k = 3 -> I2cWrite(set_table_data(table))
    [] k = 4 -> write_u8_register(62, 0)
    [] k = 5 -> write_u8_register(63, 0)

\* Faulty variant of set_table_step: the second lock write goes to 0x3F again.
set_table_step_LockTypo(k, table) ==
  CASE k = 1 -> write_u8_register(63, 87)
    [] k = 2 -> write_u8_register(62, 74)
    [] k = 3 -> I2cWrite(set_table_data(table))
    [] k = 4 -> write_u8_register(63, 0)
    [] k = 5 -> write_u8_register(63, 0)

\* The k-th bus transaction of set_table.
set_table_step(k, table) ==
  CASE k = 1 -> write_u8_register(63, 87)
    [] k = 2 -> write_u8_register(62, 74)
    [] k = 3 -> I2cWrite(set_table_data(table))
    [] k = 4 -> write_u8_register(63, 0)
    [] k = 5 -> write_u8_register(62, 0)

\* ------------------------------------------------------------- operations

OpNames == {"quickstart", "version", "soc", "reset", "voltage", "charge_rate", "set_table"}

\* Faulty variant of ChargeRateChips: the 5.0/64000.0 pair.
ChargeRateChips_HighResPair == {"Max17048", "Max17058"}

\* The variants offering charge_rate.
ChargeRateChips == Chips_48_49

\* The methods variant c has.
Ops(c) ==
  {"quickstart", "version", "soc", "reset", "voltage"}
  \cup (IF c \in Chips_x8_x9 THEN {"set_table"} ELSE {})
  \cup (IF c \in ChargeRateChips THEN {"charge_rate"} ELSE {})

\* The number of bus transactions operation o issues when none fails.
NumTxns(o) == IF o = "set_table" THEN 5 ELSE 1

\* The k-th bus transaction of operation o on variant c.
OpTxn(c, o, k, table) ==
  CASE o = "quickstart" -> write_register(Register_MODE, Command_QSTRT)
    [] o = "version" -> read_register(Register_VERSION)
    [] o = "soc" -> read_register(Register_SOC)
    [] o = "reset" -> write_register(Register_COMMAND,
                                     IF c \in Chips_43_44 THEN Command_POR_43_44
                                     ELSE Command_POR_X8_X9)
    [] o = "voltage" -> read_register(Register_VCELL)
    [] o = "charge_rate" -> read_register(Register_CRATE)
    [] o = "set_table" -> set_table_step(k, table)

Unit == [kind |-> "unit"]

\* The value operation o returns in Ok(..), raw being what read_register gave.
OpValue(c, o, raw) ==
  CASE o = "version" -> [kind |-> "u16", v |-> raw]
    [] o = "soc" -> IF c \in Chips_43_44 THEN soc_4x(raw) ELSE soc_x8_x9(raw)
    [] o = "voltage" -> IF c = "Max17043" THEN voltage_43(raw)
                        ELSE IF c = "Max17044" THEN voltage_44(raw)
                        ELSE voltage_x8_x9(c, raw)
    [] o = "charge_rate" -> charge_rate_value(raw)
    [] OTHER -> Unit

\* Faulty variant of AfterTxn: the result of the first unlock write dropped.
AfterTxn_IgnoreUnlockErr(o, k, ok) ==
  IF ~ok /\ ~(o = "set_table" /\ k = 1) THEN "Err"
  ELSE IF k < (IF o = "set_table" THEN 5 ELSE 1) THEN "Next"
  ELSE "Ok"

\* Faulty variant of AfterTxn: the result of the burst write dropped.
AfterTxn_IgnoreBurstErr(o, k, ok) ==
  IF ~ok /\ ~(o = "set_table" /\ k = 3) THEN "Err"
  ELSE IF k < (IF o = "set_table" THEN 5 ELSE 1) THEN "Next"
  ELSE "Ok"

\* What follows the k-th transaction of o: the `?` returns the error at once;
\* a success moves on, or returns Ok after the last transaction.
AfterTxn(o, k, ok) ==
  IF ~ok THEN "Err"
  ELSE IF k < NumTxns(o) THEN "Next"
  ELSE "Ok"

\* ----------------------------------------------------------------- device

\* The device's table lock registers 0x3E and 0x3F: the table registers are
\* unlocked by 0x57 at 0x3F and 0x4A at 0x3E, locked by 0x00 at both.
DeviceApply(d, t) ==
  IF t.kind = "write" /\ Len(t.bytes) = 2 /\ t.bytes[1] = 63 THEN [d EXCEPT !.r3F = t.bytes[2]]
  ELSE IF t.kind = "write" /\ Len(t.bytes) = 2 /\ t.bytes[1] = 62 THEN [d EXCEPT !.r3E = t.bytes[2]]
  ELSE d
DeviceUnlocked(d) == d.r3F = 87 /\ d.r3E = 74
DeviceLocked(d) == d.r3F = 0 /\ d.r3E = 0

\* The last two writes the device has received, the newest last.
Received(recv, t) ==
  IF t.kind /= "write" THEN recv
  ELSE IF Len(recv) < 2 THEN Append(recv, t.bytes)
  ELSE <<recv[2], t.bytes>>

\* ------------------------------------------------------------------ state

VARIABLES
  chip,       \* the variant of the driver handle
  self,       \* the driver handle: the struct's fields
  calls,      \* how many operations have been called on the handle
  op,         \* the operation running, or the one that returned last
  status,     \* "idle" (nothing called yet), "running", "returned"
  pc,         \* the index of the operation's current bus transaction
  table,      \* the caller's table, as passed to set_table
  issued,     \* the bus transactions the current call has issued
  inflight,   \* a bus transaction is outstanding
  result,     \* what the last call returned
  dev,        \* the device's table lock registers
  recv,       \* the last two writes the device received
  recovering  \* the call running (or returned) began right after a set_table
              \* call that failed and left the device unlocked

vars == <<chip, self, calls, op, status, pc, table, issued, inflight, result,
          dev, recv, recovering>>

\* The tables a caller passes: entry i (1-based) of TableOf(a, b).
TableOf(a, b) == [i \in 1..TableLen |-> (a * 65535 + b * 1031 * (i - 1)) % U16]
Tables == {TableOf(a, b) : a \in 0..MaxTableA, b \in 0..MaxTableB}

\* Raw register values the device answers with in Spec.
RawSamples == {0, 1, 255, 256, 4096, 4111, 6400, 6784, 32767, 32768, 65535}
RawAll == 0..(U16 - 1)

Pending == [tag |-> "Pending", val |-> Unit]
Ok(v) == [tag |-> "Ok", val |-> v]
\* Error::I2C(e): the transport's error, wrapped.
Err(e) == [tag |-> "Err", val |-> [kind |-> "I2C", e |-> e]]

\* new(i2c): the handle holds the bus and nothing else.  The device may be
\* in any lock state when the handle is made.
Init ==
  /\ chip \in Chips
  /\ self = [i2c |-> "i2c"]
  /\ calls = 0
  /\ op = "none"
  /\ status = "idle"
  /\ pc = 0
  /\ table = TableOf(0, 0)
  /\ issued = << >>
  /\ inflight = FALSE
  /\ result = Pending
  /\ dev \in [r3E : {0, 74}, r3F : {0, 87}]
  /\ recv = << >>
  /\ recovering = FALSE

\* The caller calls operation o (at most `limit` calls on the handle).
Call(o, limit) ==
  /\ status /= "running"
  /\ calls < limit
  /\ o \in Ops(chip)
  /\ op' = o
  /\ status' = "running"
  /\ pc' = 1
  /\ calls' = calls + 1
  /\ issued' = << >>
  /\ inflight' = FALSE
  /\ result' = Pending
  /\ IF o = "set_table" THEN table' \in Tables ELSE table' = table
  /\ recovering' = (status = "returned" /\ op = "set_table" /\ result.tag = "Err"
                    /\ DeviceUnlocked(dev))
  /\ UNCHANGED <<chip, self, dev, recv>>

\* The running operation hands its next transaction to the bus.
Issue ==
  /\ status = "running"
  /\ ~inflight
  /\ issued' = Append(issued, OpTxn(chip, op, pc, table))
  /\ inflight' = TRUE
  /\ UNCHANGED <<chip, self, calls, op, status, pc, table, result, dev, recv, recovering>>

\* The operation resumes with the outcome of the transaction `done`.
Resume(done, ok, value, e) ==
  LET nxt == AfterTxn(op, pc, ok)
  IN  /\ issued' = [issued EXCEPT ![Len(issued)] = done]
      /\ inflight' = FALSE
      /\ CASE nxt = "Next" -> pc' = pc + 1 /\ status' = status /\ result' = result
           [] nxt = "Ok" -> pc' = pc /\ status' = "returned" /\ result' = Ok(value)
           [] nxt = "Err" -> pc' = pc /\ status' = "returned" /\ result' = Err(e)
      /\ UNCHANGED <<chip, self, calls, op, table, recovering>>

\* The transport completes the outstanding transaction; a read answers with
\* one of the values `raws`.
CompleteOk(raws) ==
  /\ inflight
  /\ \E raw \in raws :
       LET t == issued[Len(issued)]
           data == IF t.kind = "write_read" THEN <<raw \div U8, raw % U8>> ELSE << >>
           done == [t EXCEPT !.status = "ok", !.rdata = data]
           value == IF t.kind = "write_read"
                    THEN OpValue(chip, op, read_register_value(data))
                    ELSE Unit
       IN  /\ Resume(done, TRUE, value, "none")
           /\ dev' = DeviceApply(dev, t)
           /\ recv' = Received(recv, t)

\* The transport fails the outstanding transaction with error e; whether the
\* bytes of a failed write reached the device is not known (landed).
CompleteErr(e, landed) ==
  /\ inflight
  /\ LET t == issued[Len(issued)]
         done == [t EXCEPT !.status = "fail", !.err = e]
     IN  /\ Resume(done, FALSE, Unit, e)
         /\ dev' = IF landed THEN DeviceApply(dev, t) ELSE dev
         /\ recv' = IF landed THEN Received(recv, t) ELSE recv

Next ==
  \/ \E o \in OpNames : Call(o, MaxCalls)
  \/ Issue
  \/ CompleteOk(RawSamples)
  \/ \E e \in TransportErrors, landed \in BOOLEAN : CompleteErr(e, landed)

Spec == Init /\ [][Next]_vars

\* One successful soc / voltage / charge_rate call on a handle, the device
\* answering with any 16-bit value.
InitConv == Init /\ DeviceLocked(dev)

NextSoc == Call("soc", 1) \/ Issue \/ CompleteOk(RawAll)
SpecSoc == InitConv /\ [][NextSoc]_vars

NextVcell == Call("voltage", 1) \/ Issue \/ CompleteOk(RawAll)
InitVcell == InitConv /\ chip \in Chips_43_44
SpecVcell == InitVcell /\ [][NextVcell]_vars

NextCrate == Call("charge_rate", 1) \/ Issue \/ CompleteOk(RawAll)
SpecCrate == InitConv /\ [][NextCrate]_vars

\* ----------------------------------------------------------------- claims

\* The call that ran last has returned (Ok or Err).
Returned(o) == op = o /\ status = "returned"
ReturnedOk(o) == Returned(o) /\ result.tag = "Ok"
AllOk == \A i \in 1..Len(issued) : issued[i].status = "ok"

\* The bytes set_table is to write, in order, the burst apart.
UnlockByte1 == <<63, 87>>
UnlockByte2 == <<62, 74>>
LockByte1 == <<63, 0>>
LockByte2 == <<62, 0>>

\* C1: on each of Max17048/49/58/59 a set_table call in which no transaction
\* fails issues exactly 5 transactions, all writes to ADDR and no read:
\* [0x3F,0x57], [0x3E,0x4A], one 129-byte burst, [0x3F,0x00], [0x3E,0x00];
\* a transaction is issued only when every earlier one has completed; the
\* call returns success.
C1_SetTableSequence ==
  /\ chip \in Chips_x8_x9 => "set_table" \in Ops(chip)
  /\ \A i \in 1..Len(issued) :
       issued[i].status = "pending" => (i = Len(issued) /\ inflight)
  /\ (op = "set_table" /\ status /= "idle" /\ AllOk) =>
       /\ chip \in Chips_x8_x9
       /\ Len(issued) <= 5
       /\ \A i \in 1..Len(issued) :
            /\ issued[i].kind = "write"
            /\ issued[i].addr = ADDR
            /\ issued[i].rlen = 0
            /\ i = 1 => issued[i].bytes = UnlockByte1
            /\ i = 2 => issued[i].bytes = UnlockByte2
            /\ i = 3 => Len(issued[i].bytes) = 129
            /\ i = 4 => issued[i].bytes = LockByte1
            /\ i = 5 => issued[i].bytes = LockByte2
       /\ status = "returned" => (Len(issued) = 5 /\ result = Ok(Unit))

C1_Witness ==
  /\ chip = "Max17059"
  /\ ReturnedOk("set_table")
  /\ Len(issued) = 5
  /\ AllOk

\* C2: in every operation, when the k-th transaction is the first to fail the
\* call returns the error wrapping that failure, exactly k transactions have
\* been attempted and the call issues no further one.
C2_FirstFailureReturns ==
  /\ Len(issued) <= NumTxns(op)
  /\ \A k \in 1..Len(issued) :
       issued[k].status = "fail" =>
         /\ k = Len(issued)
         /\ \A j \in 1..(k - 1) : issued[j].status = "ok"
         /\ status = "returned"
         /\ ~inflight
         /\ result = [tag |-> "Err", val |-> [kind |-> "I2C", e |-> issued[k].err]]
  /\ result.tag = "Err" =>
       (Len(issued) >= 1 /\ issued[Len(issued)].status = "fail")

C2_Witness ==
  /\ Returned("set_table")
  /\ Len(issued) = 4
  /\ issued[4].status = "fail"
  /\ result.tag = "Err"

\* C3: when both unlock writes of set_table succeed and the burst fails, the
\* call returns the error with neither lock write issued and the unlock not
\* undone: the device is unlocked at the return, and the handle holds
\* nothing but the bus.
C3_BurstFailureLeavesUnlocked ==
  (/\ Returned("set_table")
   /\ Len(issued) >= 3
   /\ issued[1].status = "ok"
   /\ issued[2].status = "ok"
   /\ issued[3].status = "fail") =>
     /\ result = Err(issued[3].err)
     /\ Len(issued) = 3
     /\ \A i \in 1..Len(issued) : issued[i].bytes \notin {LockByte1, LockByte2}
     /\ DeviceUnlocked(dev)
     /\ self = [i2c |-> "i2c"]

C3_Witness ==
  /\ Returned("set_table")
  /\ Len(issued) = 3
  /\ issued[2].status = "ok"
  /\ issued[3].status = "fail"
  /\ DeviceUnlocked(dev)

\* C4: whatever calls came before on the handle, failed ones that left the
\* device unlocked included, a set_table call that returns success leaves the
\* device locked: the last two writes it received are [0x3F,0x00], [0x3E,0x00].
C4_SuccessRelocks ==
  ReturnedOk("set_table") =>
    /\ DeviceLocked(dev)
    /\ recv = <<LockByte1, LockByte2>>

C4_Witness ==
  /\ recovering
  /\ calls >= 2
  /\ ReturnedOk("set_table")
  /\ DeviceLocked(dev)

\* C5: the burst of set_table is one 129-byte write b with b[0] = 0x40 and,
\* for every entry i of the 64-entry table, b[2i+1] its high byte and b[2i+2]
\* its low byte, in input order; the caller's table is not modified.
C5_BurstBytes ==
  (op = "set_table" /\ Len(issued) >= 3) =>
    LET b == issued[3].bytes
    IN  /\ issued[3].kind = "write"
        /\ Len(table) = 64
        /\ Len(b) = 129
        /\ b[0 + 1] = 64
        /\ \A i \in 0..63 :
             /\ b[(2 * i + 1) + 1] = table[i + 1] \div 256
             /\ b[(2 * i + 2) + 1] = table[i + 1] % 256
C5_BurstEncoding ==
  /\ []C5_BurstBytes
  /\ [][status = "running" => table' = table]_vars

C5_Witness ==
  /\ op = "set_table"
  /\ Len(issued) >= 3
  /\ table[2] = 1031
  /\ issued[3].bytes[4] = 4
  /\ issued[3].bytes[5] = 7

\* C6 as claimed: the variants offering charge_rate are the two whose voltage
\* scale is 5.0/64000.0.
C6_Claimed_HighResPair ==
  /\ Returned("charge_rate") => VcellDivisor(chip) = 64000
  /\ (chip \in Chips_x8_x9 /\ VcellDivisor(chip) = 64000 /\ status = "returned")
       => "charge_rate" \in Ops(chip)

\* C6, amended: charge_rate is offered by exactly two of the four variants,
\* Max17048 and Max17049, one of each voltage scale (Max17048 5.0/64000.0,
\* Max17049 5.0/32000.0); Max17058 and Max17059 do not offer it.
C6_ChargeRateOn48And49 ==
  /\ Cardinality({c \in Chips_x8_x9 : "charge_rate" \in Ops(c)}) = 2
  /\ ("charge_rate" \in Ops(chip)) <=> (chip \in {"Max17048", "Max17049"})
  /\ op = "charge_rate" => chip \in {"Max17048", "Max17049"}
  /\ (ReturnedOk("voltage") /\ chip \in Chips_x8_x9) =>
       LET raw == read_register_value(issued[1].rdata)
           den == IF chip \in {"Max17048", "Max17058"} THEN 64000 ELSE 32000
       IN  result.val = F32Div(F32Mul(F32FromInt(raw), F32Lit(5)), F32Lit(den))

C6_Witness ==
  /\ chip = "Max17049"
  /\ ReturnedOk("charge_rate")
  /\ VcellDivisor(chip) = 32000

\* The raw register value the last read_register returned.
LastRaw == read_register_value(issued[1].rdata)

\* floor(|v| * 2^k) of an f32 v.
F32FloorScaled(v, k) ==
  IF v.m = 0 THEN 0
  ELSE IF v.e + k >= 0 THEN v.m * Pow2(v.e + k)
  ELSE v.m \div Pow2(-(v.e + k))

Abs(n) == IF n < 0 THEN -n ELSE n

\* C7: charge_rate returns s * 0.208 (in f32) for s the raw CRATE value read
\* as a signed 16-bit integer: negative exactly when raw >= 0x8000, zero
\* exactly when raw = 0, 0.208 for raw 0x0001 and -0.208 for raw 0xFFFF.
C7_ChargeRateSigned ==
  ReturnedOk("charge_rate") =>
    LET r == LastRaw
        s == IF r < 32768 THEN r ELSE r - 65536
        v == result.val
    IN  /\ v = F32Mul(F32FromInt(s), F32_0_208)
        \* within 0.008 of the real number s * 0.208
        /\ Abs(F32FloorScaled(v, 8) * 1000 - Abs(s) * 53248) <= 2000
        /\ (v.neg /\ v.m > 0) <=> (r >= 32768)
        /\ v.neg <=> (r >= 32768)
        /\ (v.m = 0) <=> (r = 0)
        /\ r = 1 => v = [kind |-> "f32", neg |-> FALSE, m |-> 3489661, e |-> -24]
        /\ r = 65535 => v = [kind |-> "f32", neg |-> TRUE, m |-> 3489661, e |-> -24]

C7_Witness ==
  /\ ReturnedOk("charge_rate")
  /\ LastRaw = 65535
  /\ result.val.neg
  /\ result.val.m = 3489661

\* C8: on Max17043 and Max17044 soc returns high_byte + low_byte/256 of the
\* raw SOC value, unclamped: 256 * soc = 256 * high_byte + low_byte, and raw
\* 0x1A80 gives 26.5.
C8_SocFixedPoint ==
  (ReturnedOk("soc") /\ chip \in Chips_43_44) =>
    LET r == LastRaw
        hi == r \div 256
        lo == r % 256
        v == result.val
    IN  /\ v = F32Norm(FALSE, 256 * hi + lo, -8)
        /\ F32FloorScaled(v, 8) = 256 * hi + lo
        /\ r = 6784 => v = [kind |-> "f32", neg |-> FALSE, m |-> 53, e |-> -1]

C8_Witness ==
  /\ ReturnedOk("soc")
  /\ chip = "Max17044"
  /\ LastRaw = 65535
  /\ result.val = [kind |-> "f32", neg |-> FALSE, m |-> 65535, e |-> -8]

\* C9: Max17043.voltage returns floor(raw/16)/800 and Max17044.voltage
\* floor(raw/16)/400 (in f32): the low 4 bits of raw do not matter, the
\* Max17044 value is exactly twice the Max17043 value for the same raw, and
\* Max17043 on raw 0x1000 gives 0.32.
C9_VoltageTop12Bits ==
  ReturnedOk("voltage") =>
    LET r == LastRaw
        x == r \div 16
        v == result.val
        den == IF chip = "Max17043" THEN 800 ELSE 400
        twice(f) == IF f.m = 0 THEN f ELSE [f EXCEPT !.e = f.e + 1]
    IN  /\ v = F32Div(F32FromInt(x), F32Lit(den))
        \* within 2^-15 of the real number x / den
        /\ Abs(F32FloorScaled(v, 16) * den - x * 65536) <= 2 * den
        /\ v = OpValue(chip, "voltage", r - (r % 16))
        /\ chip = "Max17043" => twice(v) = voltage_44(r)
        /\ chip = "Max17044" => v = twice(voltage_43(r))
        /\ (chip = "Max17043" /\ r = 4096) =>
             v = [kind |-> "f32", neg |-> FALSE, m |-> 5368709, e |-> -24]

C9_Witness ==
  /\ ReturnedOk("voltage")
  /\ chip = "Max17043"
  /\ LastRaw = 4096 + 15
  /\ result.val = [kind |-> "f32", neg |-> FALSE, m |-> 5368709, e |-> -24]

\* C10: the two sub-families decode the state of charge alike: for every raw
\* SOC value, high_byte + low_byte/256 (Max17043/44) and raw/256
\* (Max170x8/x9) are the same f32, 25.0 for raw 0x1900, and the call issues
\* the same read on every variant.
C10_SocDecodingsAgree ==
  ReturnedOk("soc") =>
    LET r == LastRaw
        v == result.val
    IN  /\ soc_4x(r) = soc_x8_x9(r)
        /\ v = soc_4x(r)
        /\ v = soc_x8_x9(r)
        /\ r = 6400 => v = [kind |-> "f32", neg |-> FALSE, m |-> 25, e |-> 0]
        /\ Len(issued) = 1
        /\ issued[1].kind = "write_read"
        /\ issued[1].bytes = <<Register_SOC>>

C10_Witness ==
  /\ ReturnedOk("soc")
  /\ chip = "Max17058"
  /\ LastRaw = 6400
  /\ result.val = [kind |-> "f32", neg |-> FALSE, m |-> 25, e |-> 0]

====
